---- MODULE Spec2Model ----
(***************************************************************************)
(* The temporal feature engine of epl-ml-predictor (src/src/features.py):  *)
(* add_team_form_features, add_team_strength_features, add_elo_features.   *)
(*                                                                         *)
(* A match table is a sequence of rows; a row is a record with the columns *)
(* the three functions read.  SeasonFile and Date are integers ordered as  *)
(* the file names and the dates are.  Means of integer columns are exact   *)
(* fractions in lowest terms; a missing value (NaN) is the fraction with   *)
(* denominator 0, and -1 in an integer column.  Elo ratings are fixed      *)
(* point numbers with Scale units to the rating point.                     *)
(***************************************************************************)
EXTENDS Integers, Sequences, FiniteSets, TLC

VARIABLES
    df,        \* the match table (add_elo_features: its rows read so far)
    call,      \* the function applied to df: "form", "strength" or "elo"
    window,    \* add_team_form_features' window argument
    k_factor,  \* add_elo_features' k_factor argument
    pc,        \* "start" until the function returns, then "done"
    out,       \* the returned table, <<>> until the function returns
    i,         \* add_elo_features: the position of the row the loop reads next
    ratings,   \* add_elo_features: the ratings dict
    elo_home,  \* add_elo_features: the three lists
    elo_away,
    elo_diff

vars == <<df, call, window, k_factor, pc, out, i, ratings, elo_home, elo_away, elo_diff>>

---------------------------------------------------------------------------
(* Bounds of the model *)

\* Rows of a table, per specification.
MaxMatches == 2
MaxFormMatches == 3
MaxStrengthMatches == 3
MaxEloMatches == 3

\* Largest window given to add_team_form_features.
MaxWindow == 2

---------------------------------------------------------------------------
(* Values *)

\* NaN in an integer column (Series.map of a key the dict lacks).
NaNInt == -1

\* NaN in a column of means.
NaN == [num |-> 0, den |-> 0]

Abs(x) == IF x < 0 THEN -x ELSE x

RECURSIVE GCD(_, _)
GCD(a, b) == IF b = 0 THEN a ELSE GCD(b, a % b)

\* The fraction n/d (d > 0) in lowest terms.
Frac(n, d) ==
    LET g == GCD(Abs(n), d)
    IN  [num |-> n \div g, den |-> d \div g]

\* a - b on a column of means; NaN if either side is NaN.
FracSub(a, b) ==
    IF a.den = 0 \/ b.den = 0 THEN NaN
    ELSE Frac(a.num * b.den - b.num * a.den, a.den * b.den)

RECURSIVE SeqSum(_)
SeqSum(s) == IF s = <<>> THEN 0 ELSE Head(s) + SeqSum(Tail(s))

Min(a, b) == IF a < b THEN a ELSE b
Max(a, b) == IF a > b THEN a ELSE b

\* The last n elements of s (all of s when it has fewer).
LastN(s, n) == SubSeq(s, Max(1, Len(s) - n + 1), Len(s))

NotNaN(v) == v # NaNInt

\* Rolling(window, min_periods).mean() at the last position of vals, the
\* group's values up to and including the current row: the mean of the
\* observations among the last `w` values, NaN with fewer than `minp` of them.
WindowMean(vals, w, minp) ==
    LET obs == SelectSeq(LastN(vals, w), NotNaN)
    IN  IF Len(obs) >= minp /\ Len(obs) > 0
        THEN Frac(SeqSum(obs), Len(obs))
        ELSE NaN

\* Series.map(dict): the dict's value, NaN for a key it lacks.
MapHomePoints(r) ==
    CASE r = 0 -> 3 [] r = 1 -> 1 [] r = 2 -> 0 [] OTHER -> NaNInt

MapAwayPoints(r) ==
    CASE r = 0 -> 0 [] r = 1 -> 1 [] r = 2 -> 3 [] OTHER -> NaNInt

\* sort_values(col): the rows of s in ascending order of column col, rows
\* with equal values in their order in s.
StableSort(s, col) ==
    LET n == Len(s)
        rank(j) == Cardinality({k \in 1..n :
                        \/ s[k][col] < s[j][col]
                        \/ (s[k][col] = s[j][col] /\ k < j)}) + 1
    IN  [p \in 1..n |-> s[CHOOSE j \in 1..n : rank(j) = p]]

RECURSIVE Concat(_)
\* The concatenation of a sequence of sequences.
Concat(ss) == IF ss = <<>> THEN <<>> ELSE Head(ss) \o Concat(Tail(ss))

\* out = df.copy() with the two points columns; `id` is a ghost column, the
\* row's position in df, which no feature reads.
WithPoints(t) ==
    [j \in 1..Len(t) |->
        t[j] @@ [id |-> j,
                 HomePoints |-> MapHomePoints(t[j].Result),
                 AwayPoints |-> MapAwayPoints(t[j].Result)]]

\* home_df and away_df concatenated: one row per team and match.
LongView(t) ==
    [j \in 1..Len(t) |->
        [SeasonFile |-> t[j].SeasonFile, Date |-> t[j].Date, Team |-> t[j].HomeTeam,
         GF |-> t[j].FTHG, GA |-> t[j].FTAG, Points |-> t[j].HomePoints]]
    \o
    [j \in 1..Len(t) |->
        [SeasonFile |-> t[j].SeasonFile, Date |-> t[j].Date, Team |-> t[j].AwayTeam,
         GF |-> t[j].FTAG, GA |-> t[j].FTHG, Points |-> t[j].AwayPoints]]

---------------------------------------------------------------------------
(* add_team_form_features *)

\* groupby(by)[col] seen from row q of T: the values of column col on the
\* rows at positions <= q that agree with row q on the columns by, in T's
\* order. A window ending at row q reads the tail of this.
GroupCol(T, q, by, col) ==
    LET g == SelectSeq(SubSeq(T, 1, q), LAMBDA x : \A c \in by : x[c] = T[q][c])
    IN  [p \in 1..Len(g) |-> g[p][col]]

\* groupby("Team")
ByTeam == {"Team"}

\* long_df, sorted by Date, after the three rolling columns are assigned.
FormLong(t, w) ==
    LET L == StableSort(LongView(t), "Date")
    IN  [q \in 1..Len(L) |->
            [Date |-> L[q].Date, Team |-> L[q].Team,
             GF_roll  |-> WindowMean(GroupCol(L, q, ByTeam, "GF"), w, w),
             GA_roll  |-> WindowMean(GroupCol(L, q, ByTeam, "GA"), w, w),
             PTS_roll |-> WindowMean(GroupCol(L, q, ByTeam, "Points"), w, w)]]

\* rename(columns=...) of the two merges.
FormHomeCols ==
    [GF_roll |-> "Home_GF_roll", GA_roll |-> "Home_GA_roll", PTS_roll |-> "Home_PTS_roll"]
FormAwayCols ==
    [GF_roll |-> "Away_GF_roll", GA_roll |-> "Away_GA_roll", PTS_roll |-> "Away_PTS_roll"]

\* The columns of right row r named in `rename`, under their new names; NaN
\* for all of them when there is no right row (r = <<>>).
Renamed(r, rename) ==
    [n \in { rename[c] : c \in DOMAIN rename } |->
        IF r = <<>> THEN NaN ELSE r[CHOOSE c \in DOMAIN rename : rename[c] = n]]

\* left.merge(right, how="left", left_on, right_on).rename(columns=rename):
\* the left rows in order, each once per right row with equal key columns
\* (in the right rows' order), or once with NaN columns when there is none.
LeftMerge(left, right, left_on, right_on, rename) ==
    Concat([j \in 1..Len(left) |->
        LET hits == SelectSeq(right, LAMBDA r :
                        \A c \in DOMAIN left_on : left[j][left_on[c]] = r[right_on[c]])
        IN  IF hits = <<>> THEN << left[j] @@ Renamed(<<>>, rename) >>
            ELSE [h \in 1..Len(hits) |-> left[j] @@ Renamed(hits[h], rename)]])

add_team_form_features(t, w) ==
    LET o == WithPoints(t)
        L == FormLong(o, w)
        m1 == LeftMerge(o, L, <<"Date", "HomeTeam">>, <<"Date", "Team">>, FormHomeCols)
    IN  LeftMerge(m1, L, <<"Date", "AwayTeam">>, <<"Date", "Team">>, FormAwayCols)

---------------------------------------------------------------------------
(* add_team_strength_features *)

SplitWindow == 5
SplitMinPeriods == 3

\* Grouping by team alone, which carries a team's history across seasons.
ByTeamAcrossSeasons == {"Team"}

\* groupby(["SeasonFile", "Team"])
BySeasonTeam == {"SeasonFile", "Team"}

\* expanding().mean(): the mean of the observations so far, NaN with none.
ExpandingMean(vals) == WindowMean(vals, Len(vals), 1)

\* long_df, sorted by (SeasonFile, Date), after the three expanding columns
\* are assigned.
\* sort_values(["SeasonFile", "Date"]) is the stable sort by Date followed by
\* the stable sort by SeasonFile.
StrengthLong(t) ==
    LET L == StableSort(StableSort(LongView(t), "Date"), "SeasonFile")
        by == BySeasonTeam
    IN  [q \in 1..Len(L) |->
            [SeasonFile |-> L[q].SeasonFile, Date |-> L[q].Date, Team |-> L[q].Team,
             Season_GF_avg  |-> ExpandingMean(GroupCol(L, q, by, "GF")),
             Season_GA_avg  |-> ExpandingMean(GroupCol(L, q, by, "GA")),
             Season_PTS_avg |-> ExpandingMean(GroupCol(L, q, by, "Points"))]]

\* rename(columns=...) of the two merges.
StrengthHomeCols ==
    [Season_GF_avg |-> "Home_Season_GF_avg", Season_GA_avg |-> "Home_Season_GA_avg",
     Season_PTS_avg |-> "Home_Season_PTS_avg"]
StrengthAwayCols ==
    [Season_GF_avg |-> "Away_Season_GF_avg", Season_GA_avg |-> "Away_Season_GA_avg",
     Season_PTS_avg |-> "Away_Season_PTS_avg"]

\* The three Season_*_gap columns.
SeasonGaps(T) ==
    [q \in 1..Len(T) |-> T[q] @@
        [Season_PTS_gap |-> FracSub(T[q].Home_Season_PTS_avg, T[q].Away_Season_PTS_avg),
         Season_GF_gap  |-> FracSub(T[q].Home_Season_GF_avg, T[q].Away_Season_GF_avg),
         Season_GA_gap  |-> FracSub(T[q].Away_Season_GA_avg, T[q].Home_Season_GA_avg)]]

\* groupby(role)[col].rolling(window=5, min_periods=3).mean() on the merged
\* table, in its row order.
SplitRoll(T, q, role, col) ==
    WindowMean(GroupCol(T, q, {role}, col), SplitWindow, SplitMinPeriods)

\* The six role-split columns and their three gaps.
RoleSplit(T) ==
    [q \in 1..Len(T) |->
        LET hp == SplitRoll(T, q, "HomeTeam", "HomePoints")
            hf == SplitRoll(T, q, "HomeTeam", "FTHG")
            ha == SplitRoll(T, q, "HomeTeam", "FTAG")
            ap == SplitRoll(T, q, "AwayTeam", "AwayPoints")
            af == SplitRoll(T, q, "AwayTeam", "FTAG")
            aa == SplitRoll(T, q, "AwayTeam", "FTHG")
        IN  T[q] @@
            [Home_Home_PTS_roll |-> hp, Home_Home_GF_roll |-> hf, Home_Home_GA_roll |-> ha,
             Away_Away_PTS_roll |-> ap, Away_Away_GF_roll |-> af, Away_Away_GA_roll |-> aa,
             PTS_gap_split |-> FracSub(hp, ap),
             GF_gap_split  |-> FracSub(hf, af),
             GA_gap_split  |-> FracSub(aa, ha)]]

add_team_strength_features(t) ==
    LET o == WithPoints(t)
        L == StrengthLong(o)
        m1 == LeftMerge(o, L, <<"SeasonFile", "Date", "HomeTeam">>,
                        <<"SeasonFile", "Date", "Team">>, StrengthHomeCols)
        m2 == LeftMerge(m1, L, <<"SeasonFile", "Date", "AwayTeam">>,
                        <<"SeasonFile", "Date", "Team">>, StrengthAwayCols)
    IN  RoleSplit(SeasonGaps(m2))

---------------------------------------------------------------------------
(* add_elo_features *)

\* Units of the fixed-point numbers that stand for the function's floats:
\* a rating r is the integer r * Scale, a probability p the integer p * Scale.
Scale == 1000

start_rating == 1500
k_factor_default == 20

\* ratings = {}
EmptyDict == [t \in {} |-> 0]

\* Setdefault entering a new team at the best rating in the dict.
SetdefaultBest(rt, team, v) ==
    IF team \in DOMAIN rt THEN rt
    ELSE IF DOMAIN rt = {} THEN (team :> v) @@ rt
    ELSE (team :> (CHOOSE x \in { rt[t] : t \in DOMAIN rt } :
                        \A y \in { rt[t] : t \in DOMAIN rt } : y <= x)) @@ rt

\* ratings.setdefault(team, v)
Setdefault(rt, team, v) == IF team \in DOMAIN rt THEN rt ELSE (team :> v) @@ rt

\* 10 ** (d / 400) for a rating difference d: exp(d * ln(10) / 400) by its
\* Taylor series to the fourth order, in fixed point.
Pow10(d) ==
    LET y  == (d * 5756) \div 1000000
        t4 == Scale + y \div 4
        t3 == Scale + (y * t4) \div (3 * Scale)
        t2 == Scale + (y * t3) \div (2 * Scale)
    IN  Scale + (y * t2) \div Scale

\* exp_home = 1 / (1 + 10 ** ((Ra - Rh) / 400))
ExpHome(Rh, Ra) == (Scale * Scale) \div (Scale + Pow10(Ra - Rh))

\* exp_away = 1 - exp_home
ExpAway(exp_home) == Scale - exp_home

\* EloScores with a draw scored 0.5 for the home team and 0 for the away team.
EloScoresDrawSlip(result) ==
    IF result = 0 THEN [Sh |-> Scale, Sa |-> 0]
    ELSE IF result = 1 THEN [Sh |-> Scale \div 2, Sa |-> 0]
    ELSE [Sh |-> 0, Sa |-> Scale]

\* Sh, Sa: the if / elif / else on row["Result"].
EloScores(result) ==
    IF result = 0 THEN [Sh |-> Scale, Sa |-> 0]
    ELSE IF result = 1 THEN [Sh |-> Scale \div 2, Sa |-> Scale \div 2]
    ELSE [Sh |-> 0, Sa |-> Scale]

\* EloStep with the two ratings read after the stores instead of before.
EloStepEmitAfter(rt, row, k) ==
    LET home == row.HomeTeam
        away == row.AwayTeam
        r1 == Setdefault(rt, home, start_rating * Scale)
        r2 == Setdefault(r1, away, start_rating * Scale)
        Rh == r2[home]
        Ra == r2[away]
        exp_home == ExpHome(Rh, Ra)
        exp_away == Scale - exp_home
        S  == IF row.Result = 0 THEN [Sh |-> Scale, Sa |-> 0]
              ELSE IF row.Result = 1 THEN [Sh |-> Scale \div 2, Sa |-> Scale \div 2]
              ELSE [Sh |-> 0, Sa |-> Scale]
        r3 == [r2 EXCEPT ![home] = Rh + k * (S.Sh - exp_home)]
        r4 == [r3 EXCEPT ![away] = Ra + k * (S.Sa - exp_away)]
    IN  [ratings |-> r4, Rh |-> r4[home], Ra |-> r4[away]]

\* One pass of the loop body on `row` with the dict `rt`: the dict after the
\* two stores, and the two ratings appended to the lists.
EloStep(rt, row, k) ==
    LET home == row.HomeTeam
        away == row.AwayTeam
        r1 == Setdefault(rt, home, start_rating * Scale)
        r2 == Setdefault(r1, away, start_rating * Scale)
        Rh == r2[home]
        Ra == r2[away]
        exp_home == ExpHome(Rh, Ra)
        exp_away == ExpAway(exp_home)
        S  == EloScores(row.Result)
        r3 == [r2 EXCEPT ![home] = Rh + k * (S.Sh - exp_home)]
        r4 == [r3 EXCEPT ![away] = Ra + k * (S.Sa - exp_away)]
    IN  [ratings |-> r4, Rh |-> Rh, Ra |-> Ra]

RECURSIVE EloRun(_, _)
\* The whole loop over the table t, from the empty dict.
EloRun(t, k) ==
    IF t = <<>>
    THEN [ratings |-> EmptyDict, elo_home |-> <<>>, elo_away |-> <<>>, elo_diff |-> <<>>]
    ELSE LET prev == EloRun(SubSeq(t, 1, Len(t) - 1), k)
             s == EloStep(prev.ratings, t[Len(t)], k)
         IN  [ratings  |-> s.ratings,
              elo_home |-> Append(prev.elo_home, s.Rh),
              elo_away |-> Append(prev.elo_away, s.Ra),
              elo_diff |-> Append(prev.elo_diff, s.Rh - s.Ra)]

\* df["ELO_Home"] = elo_home, and the two other columns.
WithElo(t, eh, ea, ed) ==
    [j \in 1..Len(t) |->
        t[j] @@ [ELO_Home |-> eh[j], ELO_Away |-> ea[j], ELO_Diff |-> ed[j]]]

---------------------------------------------------------------------------
(* Input tables *)

\* Result as the loader encodes the full-time score.
ResultOf(hg, ag) == IF hg > ag THEN 0 ELSE IF hg = ag THEN 1 ELSE 2

Scores == { [FTHG |-> 2, FTAG |-> 1], [FTHG |-> 0, FTAG |-> 0], [FTHG |-> 0, FTAG |-> 1] }

ValidOutcomes ==
    { [FTHG |-> s.FTHG, FTAG |-> s.FTAG, Result |-> ResultOf(s.FTHG, s.FTAG)] : s \in Scores }

\* With a Result code that is none of 0, 1, 2.
AllOutcomes == ValidOutcomes \cup { [FTHG |-> 0, FTAG |-> 0, Result |-> 3] }

\* The rows over the given teams, slots (a SeasonFile with a Date) and
\* outcomes; the two teams of a match differ.
Rows(teams, slots, outcomes) ==
    { r \in { [SeasonFile |-> c.SeasonFile, Date |-> c.Date, HomeTeam |-> h, AwayTeam |-> a,
               FTHG |-> o.FTHG, FTAG |-> o.FTAG, Result |-> o.Result] :
                c \in slots, h \in teams, a \in teams, o \in outcomes } :
        r.HomeTeam # r.AwayTeam }

\* The tables of 1 to n rows of R.
Tables(R, n) == UNION { [1..m -> R] : m \in 1..n }

\* Two seasons and two dates, in every combination.
AnyRows == Rows({"A", "B", "C"}, [SeasonFile : {1, 2}, Date : {1, 2}], AllOutcomes)

\* One season, two dates.
FormRows == Rows({"A", "B", "C"}, [SeasonFile : {1}, Date : {1, 2}], ValidOutcomes)

\* Two dates of a first season and one of a second, later one; home wins and
\* draws.
StrengthRows ==
    Rows({"A", "B"},
         { [SeasonFile |-> 1, Date |-> 1], [SeasonFile |-> 1, Date |-> 2],
           [SeasonFile |-> 2, Date |-> 3] },
         { o \in ValidOutcomes : o.Result \in {0, 1} })

\* add_elo_features on tables in chronological order (row j is dated j).
\* The function reads team names only as dict keys, so every table is a
\* renaming of one whose teams first appear in the order of TeamSeq; these
\* are the tables enumerated.
TeamSeq == <<"A", "B", "C", "D">>

Range(f) == { f[x] : x \in DOMAIN f }

TeamsOf(t) == UNION { {t[j].HomeTeam, t[j].AwayTeam} : j \in DOMAIN t }

\* The teams a next row may name: those seen, and the first `fresh` unseen.
Known(seen, fresh) ==
    { TeamSeq[x] : x \in 1..Min(Len(TeamSeq), Cardinality(seen) + fresh) }

\* The rows that may follow the rows t.
EloRowsAfter(t) ==
    { r \in { [SeasonFile |-> 1, Date |-> Len(t) + 1, HomeTeam |-> h, AwayTeam |-> a,
               FTHG |-> o.FTHG, FTAG |-> o.FTAG, Result |-> o.Result] :
                h \in Known(TeamsOf(t), 1), a \in Known(TeamsOf(t), 2),
                o \in ValidOutcomes } :
        /\ r.HomeTeam # r.AwayTeam
        /\ r.AwayTeam \in Known(TeamsOf(t) \cup {r.HomeTeam}, 1) }

window_default == 5

KFactors == {k_factor_default, 32}

\* No function has run: add_elo_features' dict and lists are empty.
Idle ==
    /\ pc = "start"
    /\ out = <<>>
    /\ i = 1
    /\ ratings = EmptyDict
    /\ elo_home = <<>>
    /\ elo_away = <<>>
    /\ elo_diff = <<>>

---------------------------------------------------------------------------
(* Actions *)

AddTeamFormFeatures ==
    /\ pc = "start"
    /\ call = "form"
    /\ out' = add_team_form_features(df, window)
    /\ pc' = "done"
    /\ UNCHANGED <<df, call, window, k_factor, i, ratings, elo_home, elo_away, elo_diff>>

AddTeamStrengthFeatures ==
    /\ pc = "start"
    /\ call = "strength"
    /\ out' = add_team_strength_features(df)
    /\ pc' = "done"
    /\ UNCHANGED <<df, call, window, k_factor, i, ratings, elo_home, elo_away, elo_diff>>

\* One iteration of `for _, row in df.iterrows()`: df.iterrows() yields
\* `row`, row i of the table.  The loop never looks ahead, so df holds the
\* rows yielded so far and the row is chosen when it is yielded.
EloIter(row) ==
    /\ pc = "start"
    /\ call = "elo"
    /\ df' = Append(df, row)
    /\ LET s == EloStep(ratings, row, k_factor)
       IN  /\ ratings' = s.ratings
           /\ elo_home' = Append(elo_home, s.Rh)
           /\ elo_away' = Append(elo_away, s.Ra)
           /\ elo_diff' = Append(elo_diff, s.Rh - s.Ra)
    /\ i' = i + 1
    /\ UNCHANGED <<call, window, k_factor, pc, out>>

\* df.iterrows() is exhausted: the three columns are stored in df, which is
\* returned.
EloReturn ==
    /\ pc = "start"
    /\ call = "elo"
    /\ df' = WithElo(df, elo_home, elo_away, elo_diff)
    /\ out' = df'
    /\ pc' = "done"
    /\ UNCHANGED <<call, window, k_factor, i, ratings, elo_home, elo_away, elo_diff>>

---------------------------------------------------------------------------
(* Specifications *)

\* The three functions on any table: rows in any order of Date, Result codes
\* that may be unknown.
Init ==
    /\ call \in {"form", "strength", "elo"}
    /\ IF call = "elo" THEN df = <<>> ELSE df \in Tables(AnyRows, MaxMatches)
    /\ window = IF call = "form" THEN 1 ELSE window_default
    /\ k_factor = k_factor_default
    /\ Idle

EloIterAny == Len(df) < MaxMatches /\ \E row \in AnyRows : EloIter(row)

Next == AddTeamFormFeatures \/ AddTeamStrengthFeatures \/ EloIterAny \/ EloReturn

Spec == Init /\ [][Next]_vars

\* add_team_form_features on tables of one season, with each window.
InitForm ==
    /\ call = "form"
    /\ df \in Tables(FormRows, MaxFormMatches)
    /\ window \in 1..MaxWindow
    /\ k_factor = k_factor_default
    /\ Idle

NextForm == AddTeamFormFeatures

SpecForm == InitForm /\ [][NextForm]_vars

\* add_team_strength_features on tables of two teams and two seasons. The
\* function reads team names only as group and join keys, so every table is
\* a renaming of one whose first row has the first team of TeamSeq at home.
InitStrength ==
    /\ call = "strength"
    /\ df \in { t \in Tables(StrengthRows, MaxStrengthMatches) : t[1].HomeTeam = TeamSeq[1] }
    /\ window = window_default
    /\ k_factor = k_factor_default
    /\ Idle

NextStrength == AddTeamStrengthFeatures

SpecStrength == InitStrength /\ [][NextStrength]_vars

\* add_elo_features on chronological tables, with each k_factor.
InitElo ==
    /\ call = "elo"
    /\ df = <<>>
    /\ window = window_default
    /\ k_factor \in KFactors
    /\ Idle

EloIterChrono == Len(df) < MaxEloMatches /\ \E row \in EloRowsAfter(df) : EloIter(row)

NextElo == EloIterChrono \/ EloReturn

SpecElo == InitElo /\ [][NextElo]_vars

---------------------------------------------------------------------------
(* Properties of add_elo_features *)

Returned(f) == call = f /\ pc = "done"

Plays(row, team) == team \in {row.HomeTeam, row.AwayTeam}

\* The last match before m in which `team` plays, 0 if there is none.
PrevMatch(team, m) ==
    LET earlier == { p \in 1..(m - 1) : Plays(df[p], team) }
    IN  IF earlier = {} THEN 0 ELSE CHOOSE p \in earlier : \A x \in earlier : x <= p

\* What the update of match p stored for `team`, from the ratings emitted
\* for p and p's Result: R + K * (S - expected).
StoredBy(p, team) ==
    LET e == ExpHome(out[p].ELO_Home, out[p].ELO_Away)
        S == EloScores(out[p].Result)
    IN  IF team = out[p].AwayTeam
        THEN out[p].ELO_Away + k_factor * (S.Sa - (Scale - e))
        ELSE out[p].ELO_Home + k_factor * (S.Sh - e)

PreMatchRating(team, m) ==
    IF PrevMatch(team, m) = 0 THEN start_rating * Scale
    ELSE StoredBy(PrevMatch(team, m), team)

\* The table cut after row m, with row m's Result replaced by r.
CutWithResult(m, r) == [SubSeq(df, 1, m) EXCEPT ![m].Result = r]

\* C1: in the table add_elo_features returns, the ratings of a match are the
\* two teams' ratings before the match: start_rating for a team with no
\* earlier match, otherwise what the update of the team's preceding match
\* stored; ELO_Diff is their difference; and they are the same whatever the
\* match's own Result is and whether or not later matches exist.
C1_PreMatchRatings ==
    Returned("elo") =>
        \A m \in 1..Len(out) :
            /\ out[m].ELO_Home = PreMatchRating(out[m].HomeTeam, m)
            /\ out[m].ELO_Away = PreMatchRating(out[m].AwayTeam, m)
            /\ out[m].ELO_Diff = out[m].ELO_Home - out[m].ELO_Away
            /\ \A r \in {0, 1, 2} \ {out[m].Result} :
                    LET alt == EloRun(CutWithResult(m, r), k_factor)
                    IN  /\ alt.elo_home[m] = out[m].ELO_Home
                        /\ alt.elo_away[m] = out[m].ELO_Away

\* A returned match whose home team carries a rating from an earlier match
\* and whose away team is new.
C1_Witness ==
    /\ Returned("elo")
    /\ \E m \in 1..Len(out) :
        /\ PrevMatch(out[m].HomeTeam, m) # 0
        /\ out[m].ELO_Home # start_rating * Scale
        /\ PrevMatch(out[m].AwayTeam, m) = 0
        /\ out[m].ELO_Away = start_rating * Scale

\* The rating a team holds in the dict, start_rating before its first match.
Held(rt, team) == IF team \in DOMAIN rt THEN rt[team] ELSE start_rating * Scale

\* C7: each pass of the loop (on row i) changes the home team's and the away
\* team's stored ratings by amounts that sum to zero. Ratings are held in
\* units of 1/Scale, where the two changes are exact; in the code's floats
\* the sum is zero up to rounding.
C7_ZeroSum ==
    [][ i' = i + 1 =>
            LET h == df'[i].HomeTeam
                a == df'[i].AwayTeam
            IN  (ratings'[h] - Held(ratings, h)) + (ratings'[a] - Held(ratings, a)) = 0
      ]_vars

\* A match between unequally rated teams has been processed and changed both.
C7_Witness ==
    /\ call = "elo"
    /\ \E m \in 1..Len(elo_home) :
        /\ elo_home[m] # elo_away[m]
        /\ i = m + 1
        /\ ratings[df[m].HomeTeam] # elo_home[m]
        /\ ratings[df[m].AwayTeam] # elo_away[m]

\* Rows j and j+1 of t exchanged.
SwapAdjacent(t, j) == [t EXCEPT ![j] = t[j + 1], ![j + 1] = t[j]]

Disjoint(r1, r2) ==
    Cardinality({r1.HomeTeam, r1.AwayTeam, r2.HomeTeam, r2.AwayTeam}) = 4

\* Where row x of the table lands when rows j and j+1 are exchanged.
Moved(x, j) == IF x = j THEN j + 1 ELSE IF x = j + 1 THEN j ELSE x

\* C8: exchanging two adjacent matches that have no team in common gives
\* the same ratings for every match in the returned table and the same dict
\* at the end of the loop.
C8_DisjointCommute ==
    Returned("elo") =>
        \A j \in 1..(Len(df) - 1) :
            Disjoint(df[j], df[j + 1]) =>
                LET sw == EloRun(SwapAdjacent(df, j), k_factor)
                IN  /\ sw.ratings = ratings
                    /\ \A x \in 1..Len(out) :
                        /\ sw.elo_home[Moved(x, j)] = out[x].ELO_Home
                        /\ sw.elo_away[Moved(x, j)] = out[x].ELO_Away
                        /\ sw.elo_diff[Moved(x, j)] = out[x].ELO_Diff

\* The loop has finished a table whose first two matches have four teams and
\* changed ratings, and whose third match involves teams of both.
C8_Witness ==
    /\ Returned("elo")
    /\ Len(df) >= 3
    /\ Disjoint(df[1], df[2])
    /\ Plays(df[1], df[3].HomeTeam)
    /\ Plays(df[2], df[3].AwayTeam)
    /\ out[3].ELO_Home # out[3].ELO_Away

---------------------------------------------------------------------------
(* Properties of add_team_form_features and add_team_strength_features *)

\* The input table's rows per team, as the long view has them.
Appearances(team) ==
    SelectSeq(LongView(WithPoints(df)), LAMBDA a : a.Team = team)

\* Those dated before d.
Earlier(team, d) == SelectSeq(Appearances(team), LAMBDA a : a.Date < d)

\* No two appearances of the team have the same Date: its k-th appearance
\* in Date order is defined.
DistinctDates(team) ==
    Cardinality({ a.Date : a \in Range(Appearances(team)) }) = Len(Appearances(team))

\* The mean of f over the team's appearances before d.
PriorMean(team, d, col) ==
    LET e == Earlier(team, d)
    IN  Frac(SeqSum([p \in 1..Len(e) |-> e[p][col]]), Len(e))

\* The rolling columns of output row r for its home or its away team.
RollOf(r, side) ==
    IF side = "home"
    THEN [Team |-> r.HomeTeam, GF |-> r.Home_GF_roll, GA |-> r.Home_GA_roll,
          PTS |-> r.Home_PTS_roll]
    ELSE [Team |-> r.AwayTeam, GF |-> r.Away_GF_roll, GA |-> r.Away_GA_roll,
          PTS |-> r.Away_PTS_roll]

\* C2: the rolling values attached to a team's k-th appearance in Date order
\* are missing when k <= window, and when k = window + 1 they are the means
\* over the team's `window` earlier appearances.
C2_RollingUsesPriorAppearances ==
    Returned("form") =>
        \A q \in 1..Len(out) : \A side \in {"home", "away"} :
            LET v == RollOf(out[q], side)
                k == Len(Earlier(v.Team, out[q].Date)) + 1
            IN  DistinctDates(v.Team) =>
                    /\ k <= window =>
                            (v.GF = NaN /\ v.GA = NaN /\ v.PTS = NaN)
                    /\ k = window + 1 =>
                            /\ v.GF = PriorMean(v.Team, out[q].Date, "GF")
                            /\ v.GA = PriorMean(v.Team, out[q].Date, "GA")
                            /\ v.PTS = PriorMean(v.Team, out[q].Date, "Points")

\* The table with the outcome fields of match m replaced by those of o.
WithOutcome(t, m, o) ==
    [t EXCEPT ![m].FTHG = o.FTHG, ![m].FTAG = o.FTAG, ![m].Result = o.Result]

\* What the function called returns on the table t.
Returns(t) ==
    IF call = "form" THEN add_team_form_features(t, window)
    ELSE add_team_strength_features(t)

\* The aggregate features of an output row.
Aggregates(r) ==
    IF call = "form"
    THEN << r.Home_GF_roll, r.Home_GA_roll, r.Home_PTS_roll,
            r.Away_GF_roll, r.Away_GA_roll, r.Away_PTS_roll >>
    ELSE << r.Home_Season_GF_avg, r.Home_Season_GA_avg, r.Home_Season_PTS_avg,
            r.Away_Season_GF_avg, r.Away_Season_GA_avg, r.Away_Season_PTS_avg,
            r.Home_Home_PTS_roll, r.Home_Home_GF_roll, r.Home_Home_GA_roll,
            r.Away_Away_PTS_roll, r.Away_Away_GF_roll, r.Away_Away_GA_roll >>

\* The aggregate features on the output rows of input match x.
AggregatesOf(T, x) ==
    LET rows == SelectSeq(T, LAMBDA r : r.id = x)
    IN  [p \in 1..Len(rows) |-> Aggregates(rows[p])]

\* C3: replacing the outcome fields of one match m changes no aggregate
\* feature on m's own row nor on the row of any match dated before m.
C3_Causality ==
    (Returned("form") \/ Returned("strength")) =>
        \A m \in 1..Len(df) : \A o \in ValidOutcomes :
            LET alt == Returns(WithOutcome(df, m, o))
            IN  \A x \in 1..Len(df) :
                    (x = m \/ df[x].Date < df[m].Date) =>
                        AggregatesOf(alt, x) = AggregatesOf(out, x)

\* C10: the returned table has one row per input match, in the input's
\* order, each with its match's HomeTeam, AwayTeam and Result.
C10_RowPreservation ==
    (Returned("form") \/ Returned("strength")) =>
        /\ Len(out) = Len(df)
        /\ \A j \in 1..Len(df) :
            /\ out[j].HomeTeam = df[j].HomeTeam
            /\ out[j].AwayTeam = df[j].AwayTeam
            /\ out[j].Result = df[j].Result

\* The Season_* averages of the output rows of season s, in order.
SeasonAverages(T, s) ==
    LET rows == SelectSeq(T, LAMBDA r : r.SeasonFile = s)
    IN  [p \in 1..Len(rows) |->
            << rows[p].Home_Season_GF_avg, rows[p].Home_Season_GA_avg,
               rows[p].Home_Season_PTS_avg, rows[p].Away_Season_GF_avg,
               rows[p].Away_Season_GA_avg, rows[p].Away_Season_PTS_avg >>]

\* The rows of t that carry SeasonFile s.
SeasonOnly(t, s) == SelectSeq(t, LAMBDA r : r.SeasonFile = s)

SeasonsOf(t) == { t[j].SeasonFile : j \in DOMAIN t }

\* C4: the Season_* averages on the matches of a season are those the
\* function returns on the table with every match of the other seasons
\* removed: they are computed from that season's appearances only.
C4_SeasonReset ==
    Returned("strength") =>
        \A s \in SeasonsOf(df) :
            SeasonAverages(out, s) =
                SeasonAverages(add_team_strength_features(SeasonOnly(df, s)), s)

\* A team opens a season at home after a match of an earlier season in which
\* it scored a different number of goals; its average is this match's alone.
C4_Witness ==
    /\ Returned("strength")
    /\ \E p, q \in 1..Len(out) :
        /\ out[p].SeasonFile < out[q].SeasonFile
        /\ Plays(out[p], out[q].HomeTeam)
        /\ out[p].HomeTeam = out[q].HomeTeam
        /\ out[p].FTHG # out[q].FTHG
        /\ \A x \in 1..Len(df) :
            (x # out[q].id /\ df[x].SeasonFile = out[q].SeasonFile) =>
                ~Plays(df[x], out[q].HomeTeam)
        /\ out[q].Home_Season_GF_avg = Frac(out[q].FTHG, 1)

\* The home matches of `team` dated up to d, in Date order.
HomeMatchesUpTo(team, d) ==
    StableSort(SelectSeq(WithPoints(df), LAMBDA r : r.HomeTeam = team /\ r.Date <= d),
               "Date")

AwayMatchesUpTo(team, d) ==
    StableSort(SelectSeq(WithPoints(df), LAMBDA r : r.AwayTeam = team /\ r.Date <= d),
               "Date")

\* No other row of T has the same Date and the same team in the given role.
OnlyOnDate(T, r, role) ==
    \A x \in 1..Len(T) : (T[x][role] = r[role] /\ T[x].Date = r.Date) => T[x].id = r.id

\* The mean of column col over the last SplitWindow of `rows`, missing with
\* fewer than SplitMinPeriods of them.
RecentMean(rows, col) ==
    WindowMean([p \in 1..Len(rows) |-> rows[p][col]], SplitWindow, SplitMinPeriods)

\* C9: the role-split averages of a match are the means over the team's most
\* recent matches in that role in Date order, up to this match, and are
\* missing when there are fewer than three of them (on tables whose rows the
\* merges did not repeat).
C9_RoleSplitByDate ==
    (Returned("strength") /\ Len(out) = Len(df)) =>
        \A q \in 1..Len(out) :
            /\ OnlyOnDate(out, out[q], "HomeTeam") =>
                LET h == HomeMatchesUpTo(out[q].HomeTeam, out[q].Date)
                IN  /\ out[q].Home_Home_PTS_roll = RecentMean(h, "HomePoints")
                    /\ out[q].Home_Home_GF_roll = RecentMean(h, "FTHG")
                    /\ out[q].Home_Home_GA_roll = RecentMean(h, "FTAG")
            /\ OnlyOnDate(out, out[q], "AwayTeam") =>
                LET a == AwayMatchesUpTo(out[q].AwayTeam, out[q].Date)
                IN  /\ out[q].Away_Away_PTS_roll = RecentMean(a, "AwayPoints")
                    /\ out[q].Away_Away_GF_roll = RecentMean(a, "FTAG")
                    /\ out[q].Away_Away_GA_roll = RecentMean(a, "FTHG")

---------------------------------------------------------------------------
(* Properties of the three functions on any table *)

UnknownResult(t) == \E j \in DOMAIN t : t[j].Result \notin {0, 1, 2}

\* C5: with a Result code other than 0, 1, 2 in the table, no function
\* returns a table and the Elo loop stores no rating for a row with such a
\* code.
C5_UnknownResultFatal ==
    UnknownResult(df) =>
        /\ pc # "done"
        /\ out = <<>>
        /\ \A j \in 1..Len(elo_home) : df[j].Result \in {0, 1, 2}

\* The positions of t's rows in ascending order of Date.
DateOrder(t) ==
    StableSort([j \in 1..Len(t) |-> [row |-> j, Date |-> t[j].Date]], "Date")

\* C6: the ratings add_elo_features returns for each match are those of the
\* traversal of the same rows in ascending order of Date (the Dates being
\* all different).
C6_ChronologicalTraversal ==
    (Returned("elo") /\ Cardinality({ df[j].Date : j \in DOMAIN df }) = Len(df)) =>
        LET order == DateOrder(df)
            run == EloRun([p \in 1..Len(df) |-> df[order[p].row]], k_factor)
        IN  \A p \in 1..Len(df) :
                /\ out[order[p].row].ELO_Home = run.elo_home[p]
                /\ out[order[p].row].ELO_Away = run.elo_away[p]
                /\ out[order[p].row].ELO_Diff = run.elo_diff[p]

====
